---- MODULE Spec2Model ----
(***************************************************************************)
(* rusty-shell: the interactive loop (main, prompter) and the pipeline     *)
(* parser and executor (parse_stdin) of src/main.rs.                       *)
(*                                                                         *)
(* A line is a sequence of fragments.  A fragment is one whitespace        *)
(* character, one pipe character, or a run of other characters that is    *)
(* never split by the program (it holds no whitespace and no pipe).  The  *)
(* text of a line is the concatenation of its fragments, so two adjacent  *)
(* word fragments form one longer word, as the characters of the real     *)
(* line do.                                                                *)
(***************************************************************************)
EXTENDS Integers, Sequences, FiniteSets, TLC

\* ------------------------------------------------------------------ bounds
\* longest line typed by the user, in fragments (the newline not counted)
MaxLineLen == 4
\* largest numeric exit code a child process returns
MaxExitCode == 2
\* longest pipeline of one-word segments typed by the user, in segments
MaxStages == 3

\* --------------------------------------------------------------- alphabet
Whitespace == {" ", "\t", "\n"}
Pipe == "|"
Words == {"exit", "version", "cd", "skip", "ls", "/d"}
LineChars == {" ", Pipe} \cup Words

\* the pipelines of k segments, each segment one word: w1|w2|...|wk
WordPipelines(k) ==
    {[n \in 1..(2 * k - 1) |-> IF n % 2 = 0 THEN Pipe ELSE ws[(n + 1) \div 2]] :
        ws \in [1..k -> Words]}

\* the lines of one segment that mix spaces and tabs with words
TabbedChars == {" ", "\t", "ls", "/d"}

\* the lines the user can type: every fragment sequence up to MaxLineLen,
\* the same over spaces, tabs and two words, and the longer pipelines of up
\* to MaxStages one-word segments
Lines ==
    UNION {[1..n -> LineChars] : n \in 0..MaxLineLen}
    \cup UNION {[1..n -> TabbedChars] : n \in 0..MaxLineLen}
    \cup UNION {WordPipelines(k) : k \in 1..MaxStages}

\* directories of the file system that set_current_dir can enter
Dirs == {"/", "/home", "/d"}

\* ---------------------------------------------------------------- Config
config == [prompt |-> ">", version |-> "0.1"]

\* ------------------------------------------------------- string functions
IsWhitespace(c) == c \in Whitespace

\* str::trim_start
RECURSIVE TrimStart(_)
TrimStart(s) ==
    IF s = <<>> THEN <<>>
    ELSE IF IsWhitespace(Head(s)) THEN TrimStart(Tail(s))
    ELSE s

\* str::trim_end
RECURSIVE TrimEnd(_)
TrimEnd(s) ==
    IF s = <<>> THEN <<>>
    ELSE IF IsWhitespace(s[Len(s)]) THEN TrimEnd(SubSeq(s, 1, Len(s) - 1))
    ELSE s

\* buffer.trim()
Trim(s) == TrimEnd(TrimStart(s))

\* .split('|'): the substrings between consecutive pipe characters; a
\* string with k pipes gives k + 1 substrings, the empty string gives one.
RECURSIVE SplitFrom(_, _)
SplitFrom(s, cur) ==
    IF s = <<>> THEN <<cur>>
    ELSE IF Head(s) = Pipe THEN <<cur>> \o SplitFrom(Tail(s), <<>>)
    ELSE SplitFrom(Tail(s), Append(cur, Head(s)))

Split(s) == SplitFrom(s, <<>>)

\* fault: split(' ') semantics, every whitespace character is a separator
RECURSIVE SplitOnEach(_, _)
SplitOnEach(s, cur) ==
    IF s = <<>> THEN <<cur>>
    ELSE IF IsWhitespace(Head(s)) THEN <<cur>> \o SplitOnEach(Tail(s), "")
    ELSE SplitOnEach(Tail(s), cur \o Head(s))

SplitWhitespace_OnEach(s) == SplitOnEach(s, "")

\* command.split_whitespace(): the maximal runs of non-whitespace
\* characters, each run one token (a string).
RECURSIVE TokensFrom(_, _, _)
TokensFrom(s, cur, open) ==
    IF s = <<>> THEN (IF open THEN <<cur>> ELSE <<>>)
    ELSE IF IsWhitespace(Head(s))
         THEN (IF open THEN <<cur>> ELSE <<>>) \o TokensFrom(Tail(s), "", FALSE)
         ELSE TokensFrom(Tail(s), cur \o Head(s), TRUE)

SplitWhitespace(s) == TokensFrom(s, "", FALSE)

\* ------------------------------------------------------------------ state
VARIABLES
    pc,                \* position of the interpreter
    buffer,            \* the line read by prompter (with its newline)
    commands,          \* segments the iterator of parse_stdin still holds
    previous_command,  \* Option<Child>: <<>> or <<index into procs>>
    procs,             \* spawn attempts made in this cycle of the loop
    cwd,               \* working directory of the interpreter
    home,              \* HOME of the environment: <<>> or <<value>>
    out,               \* what was written to stdout in this cycle of the loop
    err,               \* what was written to stderr in this cycle of the loop
    cwd0,              \* working directory when this cycle began
    ret,               \* how parse_stdin returned for this buffer
    parsed,            \* the tokens of each segment of the line, in order
    exit_code          \* status of the interpreter process once it ended

vars == <<pc, buffer, commands, previous_command, procs, cwd, home, out, err,
          cwd0, ret, parsed, exit_code>>

\* Option
None == <<>>
Some(x) == <<x>>

\* std::process::Stdio
StdioInherit == [kind |-> "inherit", of |-> 0]
StdioPiped == [kind |-> "piped", of |-> 0]
\* Stdio::from(child.stdout): the read end of the pipe child i writes to
StdioFrom(i) == [kind |-> "from", of |-> i]

\* ExitStatus of a terminated child as wait() returns it, by its code():
\* Some(c), or None when the child was ended by a signal
ExitStatuses == {Some(c) : c \in 0..MaxExitCode} \cup {None}

Init ==
    /\ pc = "prompt"
    /\ buffer = <<>>
    /\ commands = <<>>
    /\ previous_command = None
    /\ procs = <<>>
    /\ cwd = "/"
    /\ home \in {None, Some("/home")}
    /\ out = <<>>
    /\ err = <<>>
    /\ cwd0 = "/"
    /\ ret = "none"
    /\ parsed = <<>>
    /\ exit_code = None

\* --------------------------------------------------------------- prompter
\* print!("{} ", config.prompt); flush.  A new cycle of the loop of main
\* begins here: what the model remembers of the last line is forgotten.
Prompt ==
    /\ pc = "prompt"
    /\ pc' = "read"
    /\ out' = <<config.prompt \o " ">>
    /\ err' = <<>>
    /\ buffer' = <<>>
    /\ commands' = <<>>
    /\ previous_command' = None
    /\ procs' = <<>>
    /\ cwd0' = cwd
    /\ ret' = "none"
    /\ parsed' = <<>>
    /\ UNCHANGED <<cwd, home, exit_code>>

\* stdout().flush() fails and .expect("Could not flush stdout.") panics: the
\* prompt does not reach the output and the process ends with the status of
\* a panic
PromptPanic ==
    /\ pc = "prompt"
    /\ pc' = "flush_panic"
    /\ exit_code' = Some(101)
    /\ out' = <<>>
    /\ err' = <<>>
    /\ buffer' = <<>>
    /\ commands' = <<>>
    /\ previous_command' = None
    /\ procs' = <<>>
    /\ cwd0' = cwd
    /\ ret' = "none"
    /\ parsed' = <<>>
    /\ UNCHANGED <<cwd, home>>

\* what split_whitespace yields for each segment of a line
TokensOf(segments) ==
    [j \in 1..Len(segments) |-> SplitWhitespace(segments[j])]

\* the start of parse_stdin on a buffer: lines 40 and 44
StartParse(b) ==
    /\ pc' = "dispatch"
    /\ buffer' = b
    /\ commands' = Split(Trim(b))
    /\ parsed' = TokensOf(Split(Trim(b)))
    /\ previous_command' = None
    /\ UNCHANGED <<procs, cwd, home, out, err, cwd0, ret, exit_code>>

\* read_line returns a line, ended by its newline
ReadLine ==
    /\ pc = "read"
    /\ \E line \in Lines : StartParse(Append(line, "\n"))

\* read_line returns Ok(0) at end of input: the buffer stays empty
ReadEof ==
    /\ pc = "read"
    /\ StartParse(<<>>)

\* read_line fails: prompter returns the error, main prints it and returns
ReadErr ==
    /\ pc = "read"
    /\ pc' = "done"
    /\ err' = Append(err, [kind |-> "read", seg |-> 0, code |-> 0])
    /\ exit_code' = Some(0)
    /\ UNCHANGED <<parsed, buffer, commands, previous_command, procs, cwd, home, out,
                   cwd0, ret>>

\* ------------------------------------------------------------ parse_stdin
\* number of segments of the line being processed
NumSegments == Len(parsed)

\* index of the segment commands.next() yields now
CurSeg == NumSegments - Len(commands) + 1

\* fault: the missing program defaults to the empty name, not to "skip"
Program_EmptyName(tokens) == IF tokens = <<>> THEN "" ELSE Head(tokens)

\* args.next().unwrap_or("skip")
Program(tokens) == IF tokens = <<>> THEN "skip" ELSE Head(tokens)

\* what the args iterator still holds after the program was taken
Args(tokens) == IF tokens = <<>> THEN <<>> ELSE Tail(tokens)

\* the while-let took a segment: the guard shared by the match arms
Dispatching(name) ==
    /\ pc = "dispatch"
    /\ commands # <<>>
    /\ name = Program(SplitWhitespace(Head(commands)))

IsExternal(program) == program \notin {"skip", "exit", "version", "cd"}

\* fault: continue, not return
Skip_Continues ==
    /\ Dispatching("skip")
    /\ commands' = Tail(commands)
    /\ UNCHANGED <<parsed, pc, buffer, previous_command, procs, cwd, home, out,
                   err, cwd0, ret, exit_code>>

\* "skip" => return
Skip ==
    /\ Dispatching("skip")
    /\ pc' = "prompt"
    /\ ret' = "skip"
    /\ commands' = Tail(commands)
    /\ UNCHANGED <<parsed, buffer, previous_command, procs, cwd, home, out, err, cwd0,
                   exit_code>>

\* fault: exit(1)
Exit_Status1 ==
    /\ Dispatching("exit")
    /\ pc' = "exited"
    /\ exit_code' = Some(1)
    /\ commands' = Tail(commands)
    /\ UNCHANGED <<parsed, buffer, previous_command, procs, cwd, home, out, err, cwd0,
                   ret>>

\* "exit" => exit(0)
Exit ==
    /\ Dispatching("exit")
    /\ pc' = "exited"
    /\ exit_code' = Some(0)
    /\ commands' = Tail(commands)
    /\ UNCHANGED <<parsed, buffer, previous_command, procs, cwd, home, out, err, cwd0,
                   ret>>

\* fault: version forgets the previous command, as cd does
Version_ClearsPrevious ==
    /\ Dispatching("version")
    /\ out' = Append(out, config.version \o "\n")
    /\ previous_command' = None
    /\ commands' = Tail(commands)
    /\ UNCHANGED <<parsed, pc, buffer, procs, cwd, home, err, cwd0, ret,
                   exit_code>>

\* "version" => println!("{}", config.version)
Version ==
    /\ Dispatching("version")
    /\ out' = Append(out, config.version \o "\n")
    /\ commands' = Tail(commands)
    /\ UNCHANGED <<parsed, pc, buffer, previous_command, procs, cwd, home, err, cwd0,
                   ret, exit_code>>

\* fault: HOME is never consulted
CdTarget_NoHome(args, h) == IF args # <<>> THEN Head(args) ELSE "/"

\* env::var("HOME").unwrap_or("/"), then args.next().unwrap_or(&home)
CdTarget(args, h) ==
    IF args # <<>> THEN Head(args)
    ELSE IF h # None THEN h[1]
    ELSE "/"

\* env::set_current_dir(new_dir) is Ok
SetCurrentDirOk(new_dir) == new_dir \in Dirs

\* fault: cd keeps the previous command
Cd_KeepsPrevious ==
    /\ Dispatching("cd")
    /\ LET new_dir == CdTarget(Args(SplitWhitespace(Head(commands))), home)
       IN IF SetCurrentDirOk(new_dir)
          THEN /\ cwd' = new_dir
               /\ err' = err
          ELSE /\ cwd' = cwd
               /\ err' = Append(err, [kind |-> "cd", seg |-> CurSeg, code |-> 0])
    /\ commands' = Tail(commands)
    /\ UNCHANGED <<parsed, pc, buffer, previous_command, procs, home, out,
                   cwd0, ret, exit_code>>

\* "cd" => change directory, report a failure, forget the previous command
Cd ==
    /\ Dispatching("cd")
    /\ LET new_dir == CdTarget(Args(SplitWhitespace(Head(commands))), home)
       IN IF SetCurrentDirOk(new_dir)
          THEN /\ cwd' = new_dir
               /\ err' = err
          ELSE /\ cwd' = cwd
               /\ err' = Append(err, [kind |-> "cd", seg |-> CurSeg, code |-> 0])
    /\ previous_command' = None
    /\ commands' = Tail(commands)
    /\ UNCHANGED <<parsed, pc, buffer, procs, home, out, cwd0, ret, exit_code>>

\* output.stdout.unwrap() succeeds on child i: its stdout was captured in a
\* pipe and the handle still holds it
StdoutHeld(i) == procs[i].stdout = StdioPiped /\ ~procs[i].stdout_taken

\* previous_command.map_or(Stdio::inherit(), |output| Stdio::from(...))
Input(prev) == IF prev = None THEN StdioInherit ELSE StdioFrom(prev[1])

\* fault: the output of every stage is inherited
Output_AlwaysInherit(rest) == StdioInherit

\* fault: the output of every stage is captured in a pipe
Output_AlwaysPiped(rest) == StdioPiped

\* fault: a pipe is made only when the next segment is not empty
Output_PipedIfNextNotEmpty(rest) ==
    IF rest # <<>> /\ SplitWhitespace(Head(rest)) # <<>>
    THEN StdioPiped
    ELSE StdioInherit

\* if commands.peek().is_some() { Stdio::piped() } else { Stdio::inherit() }
Output(rest) == IF rest # <<>> THEN StdioPiped ELSE StdioInherit

\* fault: the child starts in the directory the line began in
NewProc_StartDir(program, args, input, output, ok) ==
    [seg |-> CurSeg, program |-> program, args |-> args,
     stdin |-> input, stdout |-> output, dir |-> cwd0,
     ok |-> ok, state |-> IF ok THEN "running" ELSE "failed",
     status |-> None, stdout_taken |-> FALSE, waited |-> FALSE]

\* the Child of a Command that was spawned, or the record of a failed spawn
NewProc(program, args, input, output, ok) ==
    [seg |-> CurSeg, program |-> program, args |-> args,
     stdin |-> input, stdout |-> output, dir |-> cwd,
     ok |-> ok, state |-> IF ok THEN "running" ELSE "failed",
     status |-> None, stdout_taken |-> FALSE, waited |-> FALSE]

\* procs after the stdout of the previous command was moved out of it
TakeStdout(prev) ==
    IF prev = None THEN procs
    ELSE [procs EXCEPT ![prev[1]].stdout_taken = TRUE]

\* fault: the Err arm keeps the previous command
Saved_KeepsPrevious(ok, prev, child) == IF ok THEN Some(child) ELSE prev

\* match output { Ok(child) => Some(child), Err(e) => None }
Saved(ok, prev, child) == IF ok THEN Some(child) ELSE None

\* program => Command::new(program).args(args).stdin(..).stdout(..).spawn()
Spawn ==
    /\ pc = "dispatch"
    /\ commands # <<>>
    /\ LET tokens == SplitWhitespace(Head(commands))
           program == Program(tokens)
       IN /\ IsExternal(program)
          /\ IF previous_command # None /\ ~StdoutHeld(previous_command[1])
             THEN \* unwrap on None panics
                  /\ pc' = "panicked"
                  /\ UNCHANGED <<previous_command, procs, err>>
             ELSE \E ok \in BOOLEAN :
                  /\ procs' = Append(TakeStdout(previous_command),
                                     NewProc(program, Args(tokens),
                                             Input(previous_command),
                                             Output(Tail(commands)), ok))
                  /\ previous_command' =
                         Saved(ok, previous_command, Len(procs) + 1)
                  /\ err' = IF ok THEN err
                            ELSE Append(err, [kind |-> "spawn",
                                              seg |-> CurSeg, code |-> 0])
                  /\ pc' = pc
    /\ commands' = Tail(commands)
    /\ UNCHANGED <<parsed, buffer, cwd, home, out, cwd0, ret, exit_code>>

\* the iterator is exhausted: line 117
LoopEnd ==
    /\ pc = "dispatch"
    /\ commands = <<>>
    /\ IF previous_command = None
       THEN pc' = "prompt" /\ ret' = "end"
       ELSE pc' = "wait" /\ ret' = ret
    /\ UNCHANGED <<parsed, buffer, commands, previous_command, procs, cwd, home, out,
                   err, cwd0, exit_code>>

\* fault: unwrap_or(0)
StatusCode_DefaultZero(status) == IF status = None THEN 0 ELSE status[1]

\* exit_status.code().unwrap_or(1)
StatusCode(status) == IF status = None THEN 1 ELSE status[1]

\* what the Ok arm of the wait writes to stderr: eprint!("{} ", code)
StatusReport(status) ==
    IF status = Some(0) THEN <<>>
    ELSE <<[kind |-> "status", seg |-> 0, code |-> StatusCode(status)]>>

\* fault: the wait does not block (try_wait)
Terminated_NoBlock(i) == TRUE

\* wait() blocks until the child has terminated
Terminated(i) == procs[i].state = "exited"

\* last_command.wait() returns Ok(exit_status): the child has terminated,
\* and its status becomes known to the interpreter
WaitOk ==
    /\ pc = "wait"
    /\ LET i == previous_command[1]
       IN /\ Terminated(i)
          /\ \E exit_status \in ExitStatuses :
                /\ procs' = [procs EXCEPT ![i].waited = TRUE,
                                          ![i].status = exit_status]
                /\ err' = err \o StatusReport(exit_status)
    /\ pc' = "prompt"
    /\ ret' = "end"
    /\ UNCHANGED <<parsed, buffer, commands, previous_command, cwd, home, out, cwd0,
                   exit_code>>

\* fault: a failed wait ends the program as a failed read does
WaitErr_Fatal ==
    /\ pc = "wait"
    /\ err' = Append(err, [kind |-> "wait", seg |-> 0, code |-> 0])
    /\ pc' = "done"
    /\ ret' = "waiterr"
    /\ exit_code' = Some(0)
    /\ UNCHANGED <<parsed, buffer, commands, previous_command, procs, cwd, home,
                   out, cwd0>>

\* last_command.wait() returns Err
WaitErr ==
    /\ pc = "wait"
    /\ err' = Append(err, [kind |-> "wait", seg |-> 0, code |-> 0])
    /\ pc' = "prompt"
    /\ ret' = "waiterr"
    /\ UNCHANGED <<parsed, buffer, commands, previous_command, procs, cwd, home, out,
                   cwd0, exit_code>>

\* ------------------------------------------------------------ environment
\* a spawned child terminates on its own
ChildExit ==
    /\ pc \in {"dispatch", "wait", "prompt"}
    /\ \E i \in 1..Len(procs) :
        /\ procs[i].state = "running"
        /\ procs' = [procs EXCEPT ![i].state = "exited"]
    /\ UNCHANGED <<parsed, pc, buffer, commands, previous_command, cwd, home, out, err,
                   cwd0, ret, exit_code>>

Next ==
    \/ Prompt
    \/ PromptPanic
    \/ ReadLine
    \/ ReadEof
    \/ ReadErr
    \/ Skip
    \/ Exit
    \/ Version
    \/ Cd
    \/ Spawn
    \/ LoopEnd
    \/ WaitOk
    \/ WaitErr
    \/ ChildExit

Spec == Init /\ [][Next]_vars

\* ------------------------------------------------- vocabulary of the claims
\* the segments of the line in the buffer, left to right
Segments == Split(Trim(buffer))

\* the tokens of segment j
SegTokens(j) == parsed[j]

\* the program the match of parse_stdin sees for segment j
SegProgram(j) == Program(SegTokens(j))

\* parse_stdin has been entered for the buffer
InLine ==
    \/ pc \in {"dispatch", "wait", "exited", "panicked"}
    \/ pc = "prompt" /\ ret # "none"

\* parse_stdin has returned to prompter, the next prompt is not yet written
Returned == pc = "prompt" /\ ret # "none"

\* number of segments the loop has taken from the iterator
Dispatched == NumSegments - Len(commands)

\* the first token of segment j is a program name that is no built-in
NamesExternal(j) ==
    /\ SegTokens(j) # <<>>
    /\ Head(SegTokens(j)) \notin {"exit", "version", "cd"}

\* the spawn attempts made for segment j
AttemptsFor(j) == {i \in 1..Len(procs) : procs[i].seg = j}

\* the reports of one kind on the error stream
Reports(kind) == {n \in 1..Len(err) : err[n].kind = kind}

\* ---------------------------------------------------------------- claims
\* C1: in a line of N >= 2 segments that are all external programs, as long
\* as every spawn succeeded, stage 1 inherits the interpreter's input, stage
\* i > 1 reads exactly the pipe that captured the output of stage i - 1, every
\* stage before the last writes to a pipe and only stage N writes to the
\* interpreter's own output; at the end of the line all N stages exist.
C1_PipelineWiring ==
    ( /\ InLine
      /\ NumSegments >= 2
      /\ \A j \in 1..NumSegments : IsExternal(SegProgram(j))
      /\ \A i \in 1..Len(procs) : procs[i].ok )
    => /\ \A i \in 1..Len(procs) :
            /\ procs[i].seg = i
            /\ i = 1 => procs[i].stdin = StdioInherit
            /\ i > 1 => /\ procs[i].stdin = StdioFrom(i - 1)
                        /\ procs[i - 1].stdout = StdioPiped
                        /\ procs[i - 1].stdout_taken
            /\ (procs[i].stdout = StdioInherit) <=> (i = NumSegments)
            /\ i < NumSegments => procs[i].stdout = StdioPiped
       /\ Returned => Len(procs) = NumSegments

C1_Witness ==
    /\ Returned
    /\ NumSegments >= 2
    /\ Len(procs) = NumSegments
    /\ \A i \in 1..Len(procs) : procs[i].ok /\ IsExternal(SegProgram(i))

\* some segment of the line has the program token exit
HasExitSegment ==
    \E k \in 1..NumSegments : SegTokens(k) # <<>> /\ Head(SegTokens(k)) = "exit"

\* C2 as stated: a line that holds an exit segment at any position never
\* returns to the prompt loop; processing it ends the interpreter.
C2_ExitAnywhere == (InLine /\ HasExitSegment) => pc \in {"dispatch", "exited"}

\* segment k is an exit segment that the loop reaches: no earlier segment
\* is empty or has the program token skip
ExitReachedAt(k) ==
    /\ SegTokens(k) # <<>>
    /\ Head(SegTokens(k)) = "exit"
    /\ \A j \in 1..(k - 1) : SegProgram(j) \notin {"skip", "exit"}

\* C2 amended: when the line holds an exit segment and no earlier segment is
\* empty or has the program token skip, the line never returns to the prompt
\* loop and never waits: the loop is still before that segment, or the
\* interpreter has ended with status 0 at that segment, nothing waited on.
C2_ExitReached ==
    \A k \in 1..NumSegments :
        (InLine /\ ExitReachedAt(k))
        => \/ pc = "dispatch" /\ Dispatched < k
           \/ /\ pc = "exited"
              /\ exit_code = Some(0)
              /\ Dispatched = k
              /\ \A i \in 1..Len(procs) : ~procs[i].waited

C2_Witness ==
    /\ pc = "exited"
    /\ exit_code = Some(0)
    /\ Dispatched >= 2
    /\ \E i \in 1..Len(procs) : procs[i].state = "running"

\* C3 as stated: every segment the loop has dispatched whose program token is
\* non-empty and none of exit, version, cd has exactly one spawn attempt,
\* made with that token as the program and the remaining tokens as arguments.
C3_SpawnPerExternal ==
    InLine =>
        \A j \in 1..Dispatched :
            NamesExternal(j) =>
                /\ Cardinality(AttemptsFor(j)) = 1
                /\ \A i \in AttemptsFor(j) :
                      /\ procs[i].program = Head(SegTokens(j))
                      /\ procs[i].args = Tail(SegTokens(j))

\* C4: a failed spawn, at any position, has exactly one report on the error
\* stream; until the next segment is dispatched no previous command is held
\* and the loop holds the segments that follow, in order (the line ends only
\* when none follows); the next spawn attempt, if any, inherits the
\* interpreter's input.
C4_SpawnFailure ==
    \A i \in 1..Len(procs) :
        ~procs[i].ok =>
            /\ Cardinality({n \in Reports("spawn") : err[n].seg = procs[i].seg}) = 1
            /\ procs[i].state = "failed"
            /\ i < Len(procs) => procs[i + 1].stdin = StdioInherit
            /\ (i = Len(procs) /\ Dispatched = procs[i].seg) =>
                  /\ previous_command = None
                  /\ commands = SubSeq(Segments, Dispatched + 1, NumSegments)
                  /\ \/ pc = "dispatch"
                     \/ commands = <<>> /\ Returned /\ ret = "end"

C4_Witness ==
    /\ Len(procs) >= 2
    /\ ~procs[1].ok
    /\ procs[2].ok
    /\ procs[2].stdin = StdioInherit
    /\ Len(err) = 1

\* C5: when control is back in the prompt loop, every stage that was spawned
\* with its output inherited from the interpreter has terminated and was
\* waited on, or the wait on it failed; the next prompt is written only from
\* such a state.
C5_BlocksOnLastStage ==
    pc \in {"prompt", "read"} =>
        \A i \in 1..Len(procs) :
            (procs[i].ok /\ procs[i].stdout = StdioInherit) =>
                \/ procs[i].state = "exited" /\ procs[i].waited
                \/ ret = "waiterr" /\ previous_command = Some(i)

C5_Witness ==
    /\ Returned
    /\ Len(procs) = 2
    /\ procs[2].stdout = StdioInherit
    /\ procs[2].waited
    /\ procs[1].state = "running"

\* the directory a cd segment names: its first argument, else the value of
\* HOME, else the root
NamedDir(j) ==
    IF Len(SegTokens(j)) >= 2 THEN SegTokens(j)[2]
    ELSE IF home # None THEN home[1]
    ELSE "/"

\* the step dispatches the cd segment the loop is at
CdStep == Dispatching("cd") /\ commands' = Tail(commands)

\* C6: a step that dispatches a cd segment either enters the directory the
\* segment names (first argument, else HOME, else /) and reports nothing, or,
\* when that directory cannot be entered, leaves the working directory as it
\* was and adds one report to the error stream; either way the interpreter
\* goes on with the next segment and does not end.
C6_ChangeDirectory ==
    [][CdStep =>
        /\ \/ /\ SetCurrentDirOk(NamedDir(CurSeg))
              /\ cwd' = NamedDir(CurSeg)
              /\ err' = err
           \/ /\ ~SetCurrentDirOk(NamedDir(CurSeg))
              /\ cwd' = cwd
              /\ err' = Append(err, [kind |-> "cd", seg |-> CurSeg, code |-> 0])
        /\ pc' = "dispatch"
        /\ exit_code' = None
        /\ out' = out]_vars

C6_Witness ==
    /\ Returned
    /\ home = None
    /\ Segments = << <<"cd">> >>
    /\ cwd0 = "/d"
    /\ cwd = "/"
    /\ err = <<>>

\* the reports the final wait made
FinalReports == Reports("status") \cup Reports("wait")

\* C7: back in the prompt loop, a process that was waited on with status 0
\* left no report; with a non-zero code c it left the one report c; with no
\* code it left the one report 1; a failed wait left the one report of the
\* error.  The final wait makes at most one report per line, as the last
\* thing written to the error stream, and none is made before the wait.
C7_FinalStatus ==
    /\ Cardinality(FinalReports) <= 1
    /\ \A n \in FinalReports : n = Len(err) /\ Returned
    /\ Returned =>
        /\ \A i \in 1..Len(procs) :
              procs[i].waited =>
                 /\ previous_command = Some(i)
                 /\ Reports("wait") = {}
                 /\ procs[i].status = Some(0) => Reports("status") = {}
                 /\ procs[i].status \notin {None, Some(0)} =>
                       \E n \in Reports("status") : err[n].code = procs[i].status[1]
                 /\ procs[i].status = None =>
                       \E n \in Reports("status") : err[n].code = 1
        /\ ret = "waiterr" =>
              /\ Cardinality(Reports("wait")) = 1
              /\ Reports("status") = {}
        /\ (ret # "waiterr" /\ \A i \in 1..Len(procs) : ~procs[i].waited) =>
              FinalReports = {}

C7_Witness ==
    /\ Returned
    /\ \E i \in 1..Len(procs) : procs[i].waited /\ procs[i].status = Some(2)
    /\ \E n \in Reports("status") : err[n].code = 2
    /\ Reports("spawn") # {}

\* the line in the buffer holds nothing but whitespace
OnlyWhitespace == \A n \in 1..Len(buffer) : IsWhitespace(buffer[n])

\* C8: a line of whitespace only (the empty line and the empty buffer
\* included) spawns nothing, waits on nothing, writes nothing after the prompt
\* to the output and nothing to the error stream, leaves the working
\* directory alone and returns to the caller through the abort.
C8_WhitespaceLine ==
    (InLine /\ OnlyWhitespace) =>
        /\ procs = <<>>
        /\ previous_command = None
        /\ out = <<config.prompt \o " ">>
        /\ err = <<>>
        /\ cwd = cwd0
        /\ exit_code = None
        /\ \/ pc = "dispatch" /\ commands = << <<>> >>
           \/ Returned /\ ret = "skip"

C8_Witness ==
    /\ Returned
    /\ OnlyWhitespace
    /\ Len(buffer) >= 3

\* C9 as stated: when parse_stdin has returned, by the end of the segments
\* or by the abort, a previous command still held was waited on (or the wait
\* on it failed).
C9_WaitsAtEnd ==
    (Returned /\ previous_command # None) =>
        \/ procs[previous_command[1]].waited
        \/ ret = "waiterr"

\* C10 as stated: when the abort fires, no process was spawned for the line
\* and no previous command is held.
C10_AbortBeforeSpawn ==
    ret = "skip" =>
        /\ \A i \in 1..Len(procs) : ~procs[i].ok
        /\ previous_command = None

\* the process the final wait is made on: the one being waited on, the one
\* that was waited on, or the one the wait failed on
WaitedOn(i) ==
    \/ pc = "wait" /\ previous_command = Some(i)
    \/ procs[i].waited
    \/ ret = "waiterr" /\ previous_command = Some(i)

\* C11 as stated: the process waited on at the end of a line was spawned for
\* the last segment of the line, with its output inherited.
C11_WaitsOnTerminal ==
    \A i \in 1..Len(procs) :
        WaitedOn(i) =>
            /\ procs[i].seg = NumSegments
            /\ procs[i].stdout = StdioInherit

\* C11 amended: the process waited on at the end of a line is the last one
\* spawned; it is the terminal process (last segment, output inherited), or
\* every segment after it is a version segment, and then it is an earlier
\* stage whose output was captured in a pipe that nothing reads.
C11_WaitsOnLastSpawned ==
    \A i \in 1..Len(procs) :
        WaitedOn(i) =>
            /\ procs[i].ok
            /\ i = Len(procs)
            /\ Dispatched = NumSegments
            /\ \/ /\ procs[i].seg = NumSegments
                  /\ procs[i].stdout = StdioInherit
               \/ /\ procs[i].seg < NumSegments
                  /\ procs[i].stdout = StdioPiped
                  /\ ~procs[i].stdout_taken
                  /\ \A j \in (procs[i].seg + 1)..NumSegments :
                        SegProgram(j) = "version"

C11_Witness ==
    /\ Returned
    /\ \E i \in 1..Len(procs) :
          /\ procs[i].waited
          /\ procs[i].seg < NumSegments
          /\ procs[i].stdout = StdioPiped

\* C12 as stated, for the lines whose segments were all consumed (the abort
\* is the case of C9): when parse_stdin has returned and dropped its handles,
\* every process spawned for the line was waited on, or the wait on it failed.
C12_EverySpawnWaited ==
    (Returned /\ ret # "skip") =>
        \A i \in 1..Len(procs) :
            procs[i].ok =>
                \/ procs[i].waited
                \/ ret = "waiterr" /\ previous_command = Some(i)

\* the places of stdout where the version string was printed
VersionPrints == {n \in 1..Len(out) : out[n] = config.version \o "\n"}

\* the version segments the loop has dispatched
VersionSegments == {j \in 1..Dispatched : SegProgram(j) = "version"}

\* every segment strictly between segments a and b is a version segment
OnlyVersionBetween(a, b) ==
    \A j \in (a + 1)..(b - 1) : SegProgram(j) = "version"

\* a version segment prints the version once and spawns nothing
VersionPrintsOnce ==
    /\ Cardinality(VersionPrints) = Cardinality(VersionSegments)
    /\ \A j \in VersionSegments : AttemptsFor(j) = {}

\* the handle of the last spawned process is still held, with its captured
\* output, when only version segments were dispatched since
VersionKeepsHandle ==
    \A i \in 1..Len(procs) :
        ( /\ i = Len(procs)
          /\ procs[i].ok
          /\ pc = "dispatch"
          /\ Dispatched > procs[i].seg
          /\ OnlyVersionBetween(procs[i].seg, Dispatched + 1) )
        => /\ previous_command = Some(i)
           /\ ~procs[i].stdout_taken

CdSegments == {j \in 1..Dispatched : SegProgram(j) = "cd"}

\* C14: once a cd segment was dispatched, whether the change succeeded or
\* failed, no process spawned before it is held, waited on or read by a
\* later stage: right after the cd no previous command is held; the first
\* spawn attempt after it inherits the interpreter's input; and when cd is
\* the last segment the line returns without a wait and without a report of
\* the final wait.
C14_CdDropsHandle ==
    InLine =>
        \A j \in CdSegments :
            /\ AttemptsFor(j) = {}
            /\ \A i \in 1..Len(procs) :
                  /\ procs[i].seg < j => (~WaitedOn(i) /\ previous_command # Some(i))
                  /\ (procs[i].seg > j /\ \A k \in 1..Len(procs) :
                                             ~(j < procs[k].seg /\ procs[k].seg < procs[i].seg))
                     => procs[i].stdin = StdioInherit
            /\ j = Dispatched => previous_command = None
            /\ j = NumSegments =>
                  /\ pc # "wait"
                  /\ FinalReports = {}
                  /\ \A i \in 1..Len(procs) : ~procs[i].waited
                  /\ pc = "prompt" => ret = "end"

C14_Witness ==
    /\ Returned
    /\ NumSegments = 2
    /\ SegProgram(2) = "cd"
    /\ Len(procs) = 1
    /\ procs[1].ok
    /\ procs[1].state = "running"
    /\ previous_command = None

\* C15: when segment j of the line is empty, the loop never goes past it:
\* every spawn attempt, every report and every version print of the line
\* belongs to a segment before j, the interpreter exits only at a segment
\* before j, no wait is made, and at segment j parse_stdin returns, with
\* nothing reported for that segment.
C15_AbortStopsLine ==
    InLine =>
        \A j \in 1..NumSegments :
            SegTokens(j) = <<>> =>
                /\ Dispatched <= j
                /\ pc \in {"dispatch", "prompt", "exited"}
                /\ \A i \in 1..Len(procs) : procs[i].seg < j
                /\ \A n \in 1..Len(err) : err[n].seg \in 1..(j - 1)
                /\ Cardinality(VersionPrints)
                      <= Cardinality({k \in 1..(j - 1) : SegProgram(k) = "version"})
                /\ pc = "exited" => Dispatched < j
                /\ Dispatched = j =>
                      /\ Returned
                      /\ ret = "skip"
                      /\ exit_code = None

C15_Witness ==
    /\ Returned
    /\ ret = "skip"
    /\ NumSegments = 3
    /\ Dispatched = 1
    /\ SegTokens(1) = <<>>
    /\ SegProgram(2) = "cd"
    /\ SegProgram(3) = "exit"
    /\ cwd = cwd0

\* C16: the output of every spawn attempt is a new pipe exactly when its
\* segment is not the last of the line, whatever follows it, and is inherited
\* from the interpreter exactly when its segment is the last.
C16_PipeIffFollowed ==
    \A i \in 1..Len(procs) :
        /\ (procs[i].stdout = StdioPiped) <=> (procs[i].seg < NumSegments)
        /\ (procs[i].stdout = StdioInherit) <=> (procs[i].seg = NumSegments)

C16_Witness ==
    /\ Len(procs) = 1
    /\ procs[1].ok
    /\ procs[1].stdout = StdioPiped
    /\ NumSegments = 2
    /\ SegTokens(2) = <<>>

\* the interpreter process has ended
Stopped == pc \in {"exited", "done", "flush_panic", "panicked"}

\* the loop stopped at an exit segment
StoppedByExit ==
    /\ pc = "exited"
    /\ exit_code = Some(0)
    /\ Dispatched >= 1
    /\ SegTokens(Dispatched) # <<>>
    /\ Head(SegTokens(Dispatched)) = "exit"

\* the loop stopped at a failed read, after printing the error
StoppedByReadError ==
    /\ pc = "done"
    /\ Reports("read") = {Len(err)}
    /\ parsed = <<>>

\* something went wrong in the line: a spawn, a cd or the wait failed, or the
\* final status was not zero
LineFailed ==
    Reports("spawn") \cup Reports("cd") \cup Reports("wait") \cup Reports("status") # {}

SpawnStep == Len(procs') = Len(procs) + 1

\* C18: a step changes the working directory only by dispatching a cd
\* segment (so it is the same across lines); a step that spawns leaves it
\* alone and starts the process in it as it is at that moment; and no step
\* changes the directory a process already spawned was started in.
C18_WorkingDirectory ==
    [][ /\ cwd' # cwd => CdStep
        /\ SpawnStep => /\ cwd' = cwd
                        /\ procs'[Len(procs')].dir = cwd
        /\ \A i \in 1..Len(procs) :
              i <= Len(procs') => procs'[i].dir = procs[i].dir ]_vars

C18_Witness ==
    /\ Len(procs) = 2
    /\ procs[1].ok
    /\ procs[2].ok
    /\ procs[1].dir = cwd0
    /\ procs[2].dir # cwd0
    /\ procs[2].dir = cwd

\* --- the parse of a line, stated on the characters of the buffer ---
\* the places of the pipe characters of the buffer
PipePlaces == {n \in 1..Len(buffer) : buffer[n] = Pipe}

\* the place of the m-th pipe; 0 before the first, past the end after the last
PipePlace(m) ==
    IF m = 0 THEN 0
    ELSE IF m > Cardinality(PipePlaces) THEN Len(buffer) + 1
    ELSE CHOOSE n \in PipePlaces : Cardinality({q \in PipePlaces : q < n}) = m - 1

\* the m-th substring between consecutive pipes
Between(m) == SubSeq(buffer, PipePlace(m - 1) + 1, PipePlace(m) - 1)

\* the places where a word of s begins: a character that is no whitespace,
\* first of s or right after whitespace
WordStarts(s) ==
    {n \in 1..Len(s) : ~IsWhitespace(s[n]) /\ (n = 1 \/ IsWhitespace(s[n - 1]))}

\* the place where the word of s that begins at n ends
WordEnd(s, n) ==
    CHOOSE e \in n..Len(s) :
        /\ \A q \in n..e : ~IsWhitespace(s[q])
        /\ e = Len(s) \/ IsWhitespace(s[e + 1])

\* the text of a run of fragments
RECURSIVE Text(_)
Text(s) == IF s = <<>> THEN "" ELSE Head(s) \o Text(Tail(s))

\* the words of s, in order
WordsOf(s) ==
    [q \in 1..Cardinality(WordStarts(s)) |->
        LET n == CHOOSE b \in WordStarts(s) :
                    Cardinality({c \in WordStarts(s) : c < b}) = q - 1
        IN Text(SubSeq(s, n, WordEnd(s, n)))]

\* C19: a line with k pipe characters is parsed into k + 1 segments, the
\* m-th holding the words of the m-th substring between consecutive pipes,
\* where a word is a maximal run of non-whitespace characters; the loop takes
\* the segments in that order, and every spawn attempt has the first word of
\* its segment as program and the remaining words, in order, as arguments.
C19_Parse ==
    /\ (pc = "dispatch" /\ Dispatched = 0) =>
          /\ NumSegments = Cardinality(PipePlaces) + 1
          /\ \A m \in 1..NumSegments : parsed[m] = WordsOf(Between(m))
          /\ \A m \in 1..NumSegments : \A q \in 1..Len(parsed[m]) : parsed[m][q] # ""
    /\ (pc = "dispatch" /\ commands # <<>>) =>
          /\ Len(commands) <= NumSegments
          /\ SplitWhitespace(Head(commands)) = parsed[CurSeg]
    /\ \A i \in 1..Len(procs) :
          /\ procs[i].seg \in 1..Dispatched
          /\ \A k \in 1..(i - 1) : procs[k].seg < procs[i].seg
          /\ procs[i].program = Head(parsed[procs[i].seg])
          /\ procs[i].args = Tail(parsed[procs[i].seg])

C19_Witness ==
    /\ pc = "dispatch"
    /\ Len(buffer) = 5
    /\ buffer[2] = " "
    /\ buffer[3] = "\t"
    /\ parsed = << <<"ls", "/d">> >>
    /\ Len(procs) = 1
    /\ procs[1].program = "ls"
    /\ procs[1].args = <<"/d">>

\* an external segment is about to be dispatched while a handle is held
ExternalAfterHandle ==
    /\ pc = "dispatch"
    /\ commands # <<>>
    /\ IsExternal(Program(SplitWhitespace(Head(commands))))
    /\ previous_command # None

\* C20: whenever an external segment is dispatched while a handle is held,
\* the stdout of the held process was captured in a pipe and has not been
\* taken, so the unwrap at line 85 never panics.
C20_UnwrapNeverFails ==
    /\ pc # "panicked"
    /\ ExternalAfterHandle => StdoutHeld(previous_command[1])

C20_Witness ==
    /\ Len(procs) = 2
    /\ procs[1].seg = 1
    /\ procs[2].seg = 3
    /\ SegProgram(2) = "version"
    /\ procs[1].stdout_taken
    /\ procs[2].stdin = StdioFrom(1)
    /\ procs[2].ok

====
